---- MODULE Spec2Model ----
(***************************************************************************)
(* Energy unit converter (src/app.py): the unit table, convert(),          *)
(* parse_numbers() and the Streamlit script that applies them to the       *)
(* session's settings and inputs.                                          *)
(*                                                                         *)
(* Python floats are IEEE-754 binary64 values.  They are modelled exactly: *)
(* a finite non-zero float is (-1)^s * m * 2^e with m an odd natural below *)
(* 2^53 kept as a sequence of limbs, and multiplication, division and the  *)
(* decimal-to-binary conversion of float() round to nearest, ties to even. *)
(***************************************************************************)
EXTENDS Integers, Sequences, FiniteSets, TLC

Max(a, b) == IF a >= b THEN a ELSE b
Min(a, b) == IF a <= b THEN a ELSE b

(***************************************************************************)
(* Natural numbers of any size: little-endian limbs in base Base, without  *)
(* leading zero limbs; << >> is 0.                                         *)
(***************************************************************************)
LimbBits == 15
Base == 2 ^ LimbBits

\* Sums over limbs are split in halves, so that the depth of evaluation grows
\* with the logarithm of a number's length.

BNorm(a) ==
    LET nz == {i \in 1..Len(a) : a[i] # 0}
    IN  IF nz = {} THEN << >>
        ELSE SubSeq(a, 1, CHOOSE i \in nz : \A j \in nz : j <= i)

RECURSIVE BFromInt(_)
BFromInt(n) == IF n = 0 THEN << >> ELSE <<n % Base>> \o BFromInt(n \div Base)

Limb(a, i) == IF i <= Len(a) THEN a[i] ELSE 0

\* limbs lo..hi of a + b + c: the limbs d and the carry out c
RECURSIVE BAddRange(_, _, _, _, _)
BAddRange(a, b, lo, hi, c) ==
    IF lo = hi
    THEN LET s == Limb(a, lo) + Limb(b, lo) + c
         IN  [d |-> <<s % Base>>, c |-> s \div Base]
    ELSE LET mid == (lo + hi) \div 2
             l == BAddRange(a, b, lo, mid, c)
             h == BAddRange(a, b, mid + 1, hi, l.c)
         IN  [d |-> l.d \o h.d, c |-> h.c]

BAdd(a, b) ==
    IF a = << >> THEN b
    ELSE IF b = << >> THEN a
    ELSE LET r == BAddRange(a, b, 1, Max(Len(a), Len(b)), 0)
         IN  IF r.c = 0 THEN r.d ELSE r.d \o <<r.c>>

\* limbs lo..hi of a - b - c: the limbs d and the borrow out c
RECURSIVE BSubRange(_, _, _, _, _)
BSubRange(a, b, lo, hi, c) ==
    IF lo = hi
    THEN LET s == a[lo] - Limb(b, lo) - c
         IN  IF s < 0 THEN [d |-> <<s + Base>>, c |-> 1] ELSE [d |-> <<s>>, c |-> 0]
    ELSE LET mid == (lo + hi) \div 2
             l == BSubRange(a, b, lo, mid, c)
             h == BSubRange(a, b, mid + 1, hi, l.c)
         IN  [d |-> l.d \o h.d, c |-> h.c]

\* a - b for a >= b
BSub(a, b) == IF b = << >> THEN a ELSE BNorm(BSubRange(a, b, 1, Len(a), 0).d)

\* -1, 0, 1 as a < b, a = b, a > b
BCmp(a, b) ==
    IF Len(a) < Len(b) THEN -1
    ELSE IF Len(a) > Len(b) THEN 1
    ELSE LET df == {i \in 1..Len(a) : a[i] # b[i]}
         IN  IF df = {} THEN 0
             ELSE LET i == CHOOSE x \in df : \A y \in df : y <= x
                  IN  IF a[i] < b[i] THEN -1 ELSE 1

\* limbs lo..hi of a * k + c: the limbs d and the carry out c
RECURSIVE BMulSmallRange(_, _, _, _, _)
BMulSmallRange(a, k, lo, hi, c) ==
    IF lo = hi
    THEN LET p == a[lo] * k + c
         IN  [d |-> <<p % Base>>, c |-> p \div Base]
    ELSE LET mid == (lo + hi) \div 2
             l == BMulSmallRange(a, k, lo, mid, c)
             h == BMulSmallRange(a, k, mid + 1, hi, l.c)
         IN  [d |-> l.d \o h.d, c |-> h.c]

\* a * k + c for 0 <= k, c < Base
BMulSmallC(a, k, c) ==
    IF a = << >> THEN (IF c = 0 THEN << >> ELSE <<c>>)
    ELSE IF k = 0 THEN (IF c = 0 THEN << >> ELSE <<c>>)
    ELSE LET r == BMulSmallRange(a, k, 1, Len(a), c)
         IN  IF r.c = 0 THEN r.d ELSE r.d \o <<r.c>>

Zeros(n) == [i \in 1..n |-> 0]

\* a times limbs lo..hi of b, each at its place
RECURSIVE BMulRange(_, _, _, _)
BMulRange(a, b, lo, hi) ==
    IF lo = hi
    THEN (IF b[lo] = 0 THEN << >> ELSE Zeros(lo - 1) \o BMulSmallC(a, b[lo], 0))
    ELSE LET mid == (lo + hi) \div 2
         IN  BAdd(BMulRange(a, b, lo, mid), BMulRange(a, b, mid + 1, hi))

BMul(a, b) ==
    IF a = << >> \/ b = << >> THEN << >> ELSE BMulRange(a, b, 1, Len(b))

RECURSIVE BPow10(_)
BPow10(n) ==
    IF n = 0 THEN <<1>>
    ELSE LET h == BPow10(n \div 2)
             sq == BMul(h, h)
         IN  IF n % 2 = 0 THEN sq ELSE BMulSmallC(sq, 10, 0)

RECURSIVE SmallBitLen(_)
SmallBitLen(n) == IF n = 0 THEN 0 ELSE 1 + SmallBitLen(n \div 2)

BBitLen(a) ==
    IF a = << >> THEN 0 ELSE (Len(a) - 1) * LimbBits + SmallBitLen(a[Len(a)])

\* bit i of a, bit 0 the lowest
BBit(a, i) == (Limb(a, (i \div LimbBits) + 1) \div (2 ^ (i % LimbBits))) % 2

BShl(a, n) ==
    IF a = << >> THEN a
    ELSE Zeros(n \div LimbBits) \o BMulSmallC(a, 2 ^ (n % LimbBits), 0)

BShr(a, n) ==
    LET w == n \div LimbBits
        r == n % LimbBits
    IN  IF w >= Len(a) THEN << >>
        ELSE BNorm([i \in 1..(Len(a) - w) |->
                      (a[i + w] \div (2 ^ r))
                      + (Limb(a, i + w + 1) % (2 ^ r)) * (2 ^ (LimbBits - r))])

\* whether one of the n lowest bits of a is set
BLowNonzero(a, n) ==
    \/ \E i \in 1..Min(n \div LimbBits, Len(a)) : a[i] # 0
    \/ Limb(a, (n \div LimbBits) + 1) % (2 ^ (n % LimbBits)) # 0

RECURSIVE SmallTrailingZeros(_)
SmallTrailingZeros(n) == IF n % 2 = 1 THEN 0 ELSE 1 + SmallTrailingZeros(n \div 2)

\* the number of trailing zero bits of a > 0
BTrailingZeros(a) ==
    LET i == CHOOSE x \in 1..Len(a) : a[x] # 0 /\ \A y \in 1..(x - 1) : a[y] = 0
    IN  (i - 1) * LimbBits + SmallTrailingZeros(a[i])

\* floor(r / b) for r < b * Base and b with its top bit set: the estimate from
\* the leading limbs is at most 2 too large (Knuth, TAOCP 4.3.1, Theorems A, B)
QuotDigit(r, b) ==
    LET n == Len(b)
        qhat == Min(Base - 1, (Limb(r, n + 1) * Base + Limb(r, n)) \div b[n])
    IN  IF BCmp(BMulSmallC(b, qhat, 0), r) <= 0 THEN qhat
        ELSE IF BCmp(BMulSmallC(b, qhat - 1, 0), r) <= 0 THEN qhat - 1
        ELSE qhat - 2

\* long division of limbs hi down to lo of a, r the remainder so far: the
\* quotient's limbs q (lowest first) and the remainder r
RECURSIVE BDivRange(_, _, _, _, _)
BDivRange(a, b, lo, hi, r) ==
    IF lo = hi
    THEN LET r2 == BNorm(<<a[lo]>> \o r)
             d == IF BCmp(r2, b) < 0 THEN 0 ELSE QuotDigit(r2, b)
         IN  [q |-> <<d>>, r |-> BSub(r2, BMulSmallC(b, d, 0))]
    ELSE LET mid == (lo + hi) \div 2
             h == BDivRange(a, b, mid + 1, hi, r)
         IN  \* the high limbs are divided first: their remainder goes on
             IF Len(h.q) = 0 THEN h
             ELSE LET l == BDivRange(a, b, lo, mid, h.r)
                  IN  [q |-> l.q \o h.q, r |-> l.r]

\* floor(a / b) and whether a mod b is not 0, for b > 0; both are shifted to
\* set the top bit of b's top limb, which leaves the quotient as it is
BDivMod(a, b) ==
    IF a = << >> THEN [q |-> << >>, rem |-> FALSE]
    ELSE LET sh == LimbBits - SmallBitLen(b[Len(b)])
             a2 == BShl(a, sh)
             d == BDivRange(a2, BShl(b, sh), 1, Len(a2), << >>)
         IN  [q |-> BNorm(d.q), rem |-> d.r # << >>]

(***************************************************************************)
(* Python float: IEEE-754 binary64.                                        *)
(***************************************************************************)
MantBits == 53              \* sys.float_info.mant_dig
EMin == -1074               \* exponent of the smallest subnormal, 2^-1074
EMax == 1024                \* finite floats are below 2^1024

FZero(s) == [k |-> "zero", s |-> s, m |-> << >>, e |-> 0]
FInf(s) == [k |-> "inf", s |-> s, m |-> << >>, e |-> 0]
FNaN == [k |-> "nan", s |-> 0, m |-> << >>, e |-> 0]
FFin(s, m, e) == [k |-> "fin", s |-> s, m |-> m, e |-> e]

\* the float of sign s and magnitude n * 2^e, n held exactly: odd mantissa,
\* infinity from 2^1024 on
FCanon(s, n, e) ==
    IF n = << >> THEN FZero(s)
    ELSE LET tz == BTrailingZeros(n)
             m == BShr(n, tz)
         IN  IF BBitLen(m) + e + tz > EMax THEN FInf(s) ELSE FFin(s, m, e + tz)

\* round (n + sticky) * 2^e to the nearest float, ties to even; sticky stands
\* for a non-zero amount below the lowest bit of n
FRound(s, n, e, sticky) ==
    LET shift == Max(Max(BBitLen(n) - MantBits, EMin - e), 0)
    IN  IF shift = 0 THEN FCanon(s, n, e)
        ELSE LET q == BShr(n, shift)
                 half == BBit(n, shift - 1) = 1
                 rest == sticky \/ BLowNonzero(n, shift - 1)
                 odd == Limb(q, 1) % 2 = 1
             IN  IF half /\ (rest \/ odd)
                 THEN FCanon(s, BAdd(q, <<1>>), e + shift)
                 ELSE FCanon(s, q, e + shift)

\* the correctly rounded quotient (na * 2^ea) / (nb * 2^eb), na, nb > 0
FRoundQuot(s, na, ea, nb, eb) ==
    LET k == Max(0, MantBits + 2 + BBitLen(nb) - BBitLen(na)) + 1
        d == BDivMod(BShl(na, k), nb)
    IN  FRound(s, d.q, ea - eb - k, d.rem)

XorSign(a, b) == (a + b) % 2

\* x * y
FMul(x, y) ==
    IF x.k = "nan" \/ y.k = "nan" THEN FNaN
    ELSE IF x.k = "inf" \/ y.k = "inf"
    THEN (IF x.k = "zero" \/ y.k = "zero" THEN FNaN ELSE FInf(XorSign(x.s, y.s)))
    ELSE IF x.k = "zero" \/ y.k = "zero" THEN FZero(XorSign(x.s, y.s))
    ELSE FRound(XorSign(x.s, y.s), BMul(x.m, y.m), x.e + y.e, FALSE)

\* x / y for y # 0 (Python raises ZeroDivisionError on a zero divisor)
FDiv(x, y) ==
    IF x.k = "nan" \/ y.k = "nan" THEN FNaN
    ELSE IF x.k = "inf"
    THEN (IF y.k = "inf" THEN FNaN ELSE FInf(XorSign(x.s, y.s)))
    ELSE IF y.k = "inf" \/ x.k = "zero" THEN FZero(XorSign(x.s, y.s))
    ELSE FRoundQuot(XorSign(x.s, y.s), x.m, x.e, y.m, y.e)

\* Python's x == y on floats
FEq(x, y) ==
    /\ x.k # "nan"
    /\ y.k # "nan"
    /\ \/ x = y
       \/ x.k = "zero" /\ y.k = "zero"

\* the float nearest to the decimal (-1)^s * d * 10^x, d a natural
FFromDecimal(s, d, x) ==
    IF d = << >> THEN FZero(s)
    ELSE IF x >= 0 THEN FRound(s, BMul(d, BPow10(x)), 0, FALSE)
    ELSE FRoundQuot(s, d, 0, BPow10(0 - x), 0)

(***************************************************************************)
(* Text: a str is a sequence of one-character strings.                     *)
(***************************************************************************)
Whitespace == {" ", "\t", "\n", "\r", "\f"}
Digits == <<"0", "1", "2", "3", "4", "5", "6", "7", "8", "9">>
IsDigit(c) == \E i \in 1..Len(Digits) : Digits[i] = c
DigitVal(c) == (CHOOSE i \in 1..Len(Digits) : Digits[i] = c) - 1
UpperCase == <<"A", "E", "F", "I", "N", "T", "Y">>
LowerCase == <<"a", "e", "f", "i", "n", "t", "y">>
Lower(c) ==
    IF \E i \in 1..Len(UpperCase) : UpperCase[i] = c
    THEN LowerCase[CHOOSE i \in 1..Len(UpperCase) : UpperCase[i] = c]
    ELSE c

\* s.replace(old, new) for one-character old and new
replace(s, old, new) == [i \in 1..Len(s) |-> IF s[i] = old THEN new ELSE s[i]]

\* s.strip()
strip(s) ==
    LET keep == {i \in 1..Len(s) : s[i] \notin Whitespace}
    IN  IF keep = {} THEN << >>
        ELSE SubSeq(s, CHOOSE i \in keep : \A j \in keep : i <= j,
                       CHOOSE i \in keep : \A j \in keep : j <= i)

\* s.split(): the maximal runs of non-whitespace characters, in order; the scan
\* is at character i with the run cur open
RECURSIVE SplitFrom(_, _, _)
SplitFrom(s, i, cur) ==
    IF i > Len(s) THEN (IF cur = << >> THEN << >> ELSE <<cur>>)
    ELSE IF s[i] \in Whitespace
    THEN (IF cur = << >> THEN SplitFrom(s, i + 1, << >>)
          ELSE <<cur>> \o SplitFrom(s, i + 1, << >>))
    ELSE SplitFrom(s, i + 1, Append(cur, s[i]))

split(s) == SplitFrom(s, 1, << >>)

(***************************************************************************)
(* float(str): an optional sign, then inf, infinity or nan in any case, or *)
(* a decimal number [digits][.[digits]][e[sign]digits] in which single     *)
(* underscores may stand between digits; anything else is a ValueError.    *)
(***************************************************************************)
Return(v) == [exc |-> "none", val |-> <<v>>]
Raise(e) == [exc |-> e, val |-> << >>]

\* t[i] is a digit or t[j] is: the index after the digits (and the underscores
\* between them) that start at i
RECURSIVE DigitRun(_, _)
DigitRun(t, i) ==
    IF i <= Len(t) /\ IsDigit(t[i]) THEN DigitRun(t, i + 1)
    ELSE IF i + 1 <= Len(t) /\ t[i] = "_" /\ IsDigit(t[i + 1]) THEN DigitRun(t, i + 2)
    ELSE i

DigitsEnd(t, i) == IF i <= Len(t) /\ IsDigit(t[i]) THEN DigitRun(t, i + 1) ELSE i

\* the digits among t[a..b-1]
DigitsOf(t, a, b) ==
    LET at == {i \in a..(b - 1) : IsDigit(t[i])}
        nth(n) == CHOOSE i \in at : Cardinality({j \in at : j < i}) = n - 1
    IN  [n \in 1..Cardinality(at) |-> DigitVal(t[nth(n)])]

\* the natural number of decimal digits ds
RECURSIVE BFromDigits(_)
BFromDigits(ds) ==
    IF ds = << >> THEN << >>
    ELSE BMulSmallC(BFromDigits(SubSeq(ds, 1, Len(ds) - 1)), 10, ds[Len(ds)])

\* the exponent's digits as a number; from ExpCap on the result no longer
\* depends on it
ExpCap == 1000000
RECURSIVE ExpFromDigits(_)
ExpFromDigits(ds) ==
    IF ds = << >> THEN 0
    ELSE Min(ExpCap, ExpFromDigits(SubSeq(ds, 1, Len(ds) - 1)) * 10 + ds[Len(ds)])

\* decimal exponents from which every non-zero number is infinite, and down to
\* which every number of nd digits rounds to zero
DecimalInf == 310
DecimalZero == -330

PyFloat(str) ==
    LET t == strip(str)
        signed == t # << >> /\ t[1] \in {"+", "-"}
        s == IF signed /\ t[1] = "-" THEN 1 ELSE 0
        i0 == IF signed THEN 2 ELSE 1
        word == [i \in 1..(Len(t) - i0 + 1) |-> Lower(t[i + i0 - 1])]
        j == DigitsEnd(t, i0)
        hasDot == j <= Len(t) /\ t[j] = "."
        k == IF hasDot THEN DigitsEnd(t, j + 1) ELSE j
        hasMant == j > i0 \/ (hasDot /\ k > j + 1)
        hasE == hasMant /\ k <= Len(t) /\ Lower(t[k]) = "e"
        esigned == hasE /\ k + 1 <= Len(t) /\ t[k + 1] \in {"+", "-"}
        l0 == IF esigned THEN k + 2 ELSE k + 1
        l == IF hasE THEN DigitsEnd(t, l0) ELSE k
        hasExp == hasE /\ l > l0
        end == IF hasExp THEN l ELSE k
        ds == DigitsOf(t, i0, j) \o (IF hasDot THEN DigitsOf(t, j + 1, k) ELSE << >>)
        nfrac == IF hasDot THEN Len(DigitsOf(t, j + 1, k)) ELSE 0
        ex == IF hasExp THEN ExpFromDigits(DigitsOf(t, l0, l)) ELSE 0
        x == (IF esigned /\ t[k + 1] = "-" THEN 0 - ex ELSE ex) - nfrac
        d == BFromDigits(ds)
    IN  IF word = <<"i", "n", "f">>
           \/ word = <<"i", "n", "f", "i", "n", "i", "t", "y">> THEN Return(FInf(s))
        ELSE IF word = <<"n", "a", "n">> THEN Return(FNaN)
        ELSE IF ~hasMant \/ end # Len(t) + 1 THEN Raise("ValueError")
        ELSE IF d = << >> THEN Return(FZero(s))
        ELSE IF x >= DecimalInf THEN Return(FInf(s))
        ELSE IF x + Len(ds) <= DecimalZero THEN Return(FZero(s))
        ELSE Return(FFromDecimal(s, d, x))

(***************************************************************************)
(* src/app.py: the unit table and the conversion.                          *)
(***************************************************************************)
\* The float literals of the source, as the binary64 values float() gives them.
F_1_0 == FFin(0, <<1>>, 0)                                \* 1.0
F_1_000_000_0 == FFin(0, <<15625>>, 6)                    \* 1_000_000.0
F_100_000_0 == FFin(0, <<3125>>, 5)                       \* 100_000.0
F_3_412_141633 == FFin(0, <<28425, 1054, 20625, 106>>, -40)  \* 3_412.141633 = 0x1.aa848841ede12p+11
F_3_412141633 == FFin(0, <<14427, 27032, 6177, 109>>, -50)   \* 3.412141633 = 0x1.b4c10e99870b6p+1
F_5_8 == FFin(0, <<13107, 26214, 19660, 185>>, -50)       \* 5.8 = 0x1.7333333333333p+2
F_4_0 == FFin(0, <<1>>, 2)                                \* 4.0
F_8_0 == FFin(0, <<1>>, 3)                                \* 8.0

DEFAULT_MMBTU_PER_BARREL == F_5_8

Unit(label, to_mmbtu) == [label |-> label, to_mmbtu |-> to_mmbtu]

UNITS_ORDER == <<"TBtu", "MMBtu", "Mth", "GWh", "MWh", "bbl">>

\* a unit_map that keeps the default barrel factor whatever is configured
unit_map_default_barrel(mmbtu_per_barrel) ==
    ("TBtu" :> Unit("Trillion Btu (TBtu)", F_1_000_000_0))
    @@ ("MMBtu" :> Unit("Million Btu (MMBtu)", F_1_0))
    @@ ("Mth" :> Unit("Million therms (Mth)", F_100_000_0))
    @@ ("GWh" :> Unit("Gigawatt-hour (GWh)", F_3_412_141633))
    @@ ("MWh" :> Unit("Megawatt-hour (MWh)", F_3_412141633))
    @@ ("bbl" :> Unit("Barrel (crude)", DEFAULT_MMBTU_PER_BARREL))

unit_map(mmbtu_per_barrel) ==
    ("TBtu" :> Unit("Trillion Btu (TBtu)", F_1_000_000_0))
    @@ ("MMBtu" :> Unit("Million Btu (MMBtu)", F_1_0))
    @@ ("Mth" :> Unit("Million therms (Mth)", F_100_000_0))
    @@ ("GWh" :> Unit("Gigawatt-hour (GWh)", F_3_412_141633))
    @@ ("MWh" :> Unit("Megawatt-hour (MWh)", F_3_412141633))
    @@ ("bbl" :> Unit("Barrel (crude)", mmbtu_per_barrel))

\* x * y and x / y as Python evaluates them
PyMul(x, y) == Return(FMul(x, y))
PyTrueDiv(x, y) ==
    IF y.k = "zero" THEN Raise("ZeroDivisionError") ELSE Return(FDiv(x, y))

\* Variants of convert, each with one slip.
\* the two factors exchanged
convert_swapped(value, from_unit, to_unit, mmbtu_per_barrel) ==
    LET umap == unit_map(mmbtu_per_barrel)
    IN  IF from_unit \notin DOMAIN umap THEN Raise("KeyError")
        ELSE IF to_unit \notin DOMAIN umap THEN Raise("KeyError")
        ELSE LET val_in_mmbtu == PyMul(value, umap[to_unit].to_mmbtu).val[1]
             IN  PyTrueDiv(val_in_mmbtu, umap[from_unit].to_mmbtu)

\* umap.get(unit, umap["MMBtu"]) in place of umap[unit]
convert_get(value, from_unit, to_unit, mmbtu_per_barrel) ==
    LET umap == unit_map(mmbtu_per_barrel)
        get(u) == IF u \in DOMAIN umap THEN umap[u] ELSE umap["MMBtu"]
        val_in_mmbtu == PyMul(value, get(from_unit).to_mmbtu).val[1]
    IN  PyTrueDiv(val_in_mmbtu, get(to_unit).to_mmbtu)

\* the registry built once, from the default, and not from the argument
convert_stale(value, from_unit, to_unit, mmbtu_per_barrel) ==
    LET umap == unit_map(DEFAULT_MMBTU_PER_BARREL)
    IN  IF from_unit \notin DOMAIN umap THEN Raise("KeyError")
        ELSE LET val_in_mmbtu == PyMul(value, umap[from_unit].to_mmbtu).val[1]
             IN  IF to_unit \notin DOMAIN umap THEN Raise("KeyError")
                 ELSE PyTrueDiv(val_in_mmbtu, umap[to_unit].to_mmbtu)

\* the value in MMBtu returned as it is
convert_no_divide(value, from_unit, to_unit, mmbtu_per_barrel) ==
    LET umap == unit_map(mmbtu_per_barrel)
    IN  IF from_unit \notin DOMAIN umap THEN Raise("KeyError")
        ELSE LET val_in_mmbtu == PyMul(value, umap[from_unit].to_mmbtu).val[1]
             IN  IF to_unit \notin DOMAIN umap THEN Raise("KeyError")
                 ELSE Return(val_in_mmbtu)

\* the target's factor multiplied in
convert_multiply(value, from_unit, to_unit, mmbtu_per_barrel) ==
    LET umap == unit_map(mmbtu_per_barrel)
    IN  IF from_unit \notin DOMAIN umap THEN Raise("KeyError")
        ELSE LET val_in_mmbtu == PyMul(value, umap[from_unit].to_mmbtu).val[1]
             IN  IF to_unit \notin DOMAIN umap THEN Raise("KeyError")
                 ELSE PyMul(val_in_mmbtu, umap[to_unit].to_mmbtu)

\* umap[from_unit] raises KeyError before the product is formed, umap[to_unit]
\* before the quotient
convert(value, from_unit, to_unit, mmbtu_per_barrel) ==
    LET umap == unit_map(mmbtu_per_barrel)
    IN  IF from_unit \notin DOMAIN umap THEN Raise("KeyError")
        ELSE LET val_in_mmbtu == PyMul(value, umap[from_unit].to_mmbtu).val[1]
             IN  IF to_unit \notin DOMAIN umap THEN Raise("KeyError")
                 ELSE PyTrueDiv(val_in_mmbtu, umap[to_unit].to_mmbtu)

\* the floats of the parts of s that float() accepts, in order
RECURSIVE ParseLoop(_, _)
ParseLoop(parts, out) ==
    IF parts = << >> THEN out
    ELSE LET r == PyFloat(Head(parts))
         IN  IF r.exc = "ValueError" THEN ParseLoop(Tail(parts), out)
             ELSE ParseLoop(Tail(parts), Append(out, r.val[1]))

\* a parse_numbers that splits at whitespace only
parse_numbers_no_comma(s) ==
    LET sp == split(s)
        parts == [i \in 1..Len(sp) |-> strip(sp[i])]
    IN  ParseLoop(parts, << >>)

parse_numbers(s) ==
    LET sp == split(replace(s, ",", " "))
        parts == [i \in 1..Len(sp) |-> strip(sp[i])]
    IN  ParseLoop(parts, << >>)

(***************************************************************************)
(* src/app.py: the script.  Streamlit runs it from top to bottom after     *)
(* every interaction; between runs it keeps st.session_state and the       *)
(* widgets' values, and everything else is computed again from them.       *)
(***************************************************************************)
VARIABLES
    precision,          \* st.session_state.precision
    mmbtu_per_barrel,   \* st.session_state.mmbtu_per_barrel
    from_unit,          \* selectbox "From unit"
    to_unit,            \* selectbox "To unit"
    values_str,         \* text_input "Values (comma or space separated)"
    targets,            \* multiselect "Also convert to"
    apply_all,          \* checkbox "Convert to ALL units"
    pc,                 \* "app": the script serves a session; else a call's place
    call,               \* a direct call of one of the functions: its arguments
    ret,                \* what the call returned or raised
    back                \* what converting ret back returned or raised

vars == <<precision, mmbtu_per_barrel, from_unit, to_unit, values_str, targets,
          apply_all, pc, call, ret, back>>
session == <<precision, mmbtu_per_barrel, from_unit, to_unit, values_str, targets,
             apply_all>>

PRECISION_DEFAULT == 6
PRECISION_MIN == 2
PRECISION_MAX == 10
VALUES_DEFAULT == <<"1">>

Row(v, f, t, res) == [Input |-> v, From |-> f, To |-> t, Result |-> res]

\* a loop's outcome: its rows, or the exception that ended the run
Rows(rs) == [exc |-> "none", rows |-> rs]
Aborted(e) == [exc |-> e, rows |-> << >>]

\* for v in values: res = convert(v, from_unit, to_unit, ...); append the row
RECURSIVE PrimaryLoop(_, _, _, _, _, _)
PrimaryLoop(vs, f, t, m, i, rs) ==
    IF i > Len(vs) THEN Rows(rs)
    ELSE LET res == convert(vs[i], f, t, m)
         IN  IF res.exc # "none" THEN Aborted(res.exc)
             ELSE PrimaryLoop(vs, f, t, m, i + 1, Append(rs, Row(vs[i], f, t, res.val[1])))

\* for v in values: for tgt in extra_targets: append the row of convert(v, ...)
RECURSIVE AdditionalLoop(_, _, _, _, _, _, _)
AdditionalLoop(vs, f, tgts, m, i, j, rs) ==
    IF i > Len(vs) THEN Rows(rs)
    ELSE IF j > Len(tgts) THEN AdditionalLoop(vs, f, tgts, m, i + 1, 1, rs)
    ELSE LET res == convert(vs[i], f, tgts[j], m)
         IN  IF res.exc # "none" THEN Aborted(res.exc)
             ELSE AdditionalLoop(vs, f, tgts, m, i, j + 1,
                                 Append(rs, Row(vs[i], f, tgts[j], res.val[1])))

\* Variants of the loop: the two loops exchanged, and a loop that passes over
\* a pair whose conversion raises.
RECURSIVE TargetMajorLoop(_, _, _, _, _, _, _)
TargetMajorLoop(vs, f, tgts, m, i, j, rs) ==
    IF j > Len(tgts) THEN Rows(rs)
    ELSE IF i > Len(vs) THEN TargetMajorLoop(vs, f, tgts, m, 1, j + 1, rs)
    ELSE LET res == convert(vs[i], f, tgts[j], m)
         IN  IF res.exc # "none" THEN Aborted(res.exc)
             ELSE TargetMajorLoop(vs, f, tgts, m, i + 1, j,
                                  Append(rs, Row(vs[i], f, tgts[j], res.val[1])))

additional_conversions_target_major(vs, f, tgts, m) ==
    TargetMajorLoop(vs, f, tgts, m, 1, 1, << >>)

RECURSIVE SkippingLoop(_, _, _, _, _, _, _)
SkippingLoop(vs, f, tgts, m, i, j, rs) ==
    IF i > Len(vs) THEN Rows(rs)
    ELSE IF j > Len(tgts) THEN SkippingLoop(vs, f, tgts, m, i + 1, 1, rs)
    ELSE LET res == convert(vs[i], f, tgts[j], m)
         IN  IF res.exc # "none" THEN SkippingLoop(vs, f, tgts, m, i, j + 1, rs)
             ELSE SkippingLoop(vs, f, tgts, m, i, j + 1,
                               Append(rs, Row(vs[i], f, tgts[j], res.val[1])))

additional_conversions_skipping(vs, f, tgts, m) ==
    SkippingLoop(vs, f, tgts, m, 1, 1, << >>)

additional_conversions(vs, f, tgts, m) == AdditionalLoop(vs, f, tgts, m, 1, 1, << >>)

\* "Primary Conversion": nothing is computed for no values
Primary(vs, f, t, m) ==
    IF vs = << >> THEN Rows(<< >>)
    ELSE PrimaryLoop(vs, f, t, m, 1, << >>)

\* "Additional Conversions": reached only when the primary conversion raised
\* nothing, and computed only for some values and some targets
Additional(vs, f, t, tgts, m) ==
    IF vs = << >> \/ tgts = << >> THEN Rows(<< >>)
    ELSE IF Primary(vs, f, t, m).exc # "none" THEN Aborted(Primary(vs, f, t, m).exc)
    ELSE additional_conversions(vs, f, tgts, m)

\* What one run of the script computes from the state.
umap == unit_map(mmbtu_per_barrel)
values == parse_numbers(values_str)
multiselect_options == SelectSeq(UNITS_ORDER, LAMBDA u : u # from_unit)
info_shown == values = << >>
results_primary == Primary(values, from_unit, to_unit, mmbtu_per_barrel)
extra_units == SelectSeq(UNITS_ORDER, LAMBDA u : u # from_unit)
extra_targets == IF apply_all THEN extra_units ELSE targets
rows == Additional(values, from_unit, to_unit, extra_targets, mmbtu_per_barrel)

(***************************************************************************)
(* The inputs of the bounded model.                                        *)
(***************************************************************************)
\* slider positions tried, of PRECISION_MIN..PRECISION_MAX
PrecisionInputs == {PRECISION_DEFAULT, PRECISION_MAX}
\* what number_input could return were min_value left out
MmbtuInputsNoMin == {FZero(0), F_4_0, F_5_8, F_8_0}
\* what number_input(min_value=4.0, max_value=8.0) can return: the floats tried
MmbtuInputs == {F_4_0, F_5_8, F_8_0}
\* the texts typed in the session
TextInputs ==
    { VALUES_DEFAULT,
      << >>,
      <<"1", " ", "2">>,
      <<"x", "x", " ", "y", "y">> }
\* the selections made in "Also convert to", in the order picked
TargetInputs ==
    { << >>, <<"bbl">>, <<"TBtu">>, <<"bbl", "GWh">>, <<"MWh", "MMBtu">> }
InSeq(x, q) == \E i \in 1..Len(q) : q[i] = x
SubsetOf(q, opts) == \A i \in 1..Len(q) : InSeq(q[i], opts)

InitSession ==
    /\ precision = PRECISION_DEFAULT
    /\ mmbtu_per_barrel = DEFAULT_MMBTU_PER_BARREL
    /\ from_unit = UNITS_ORDER[2]
    /\ to_unit = UNITS_ORDER[1]
    /\ values_str = VALUES_DEFAULT
    /\ targets = << >>
    /\ apply_all = FALSE

NoCall == call = [fn |-> "none"] /\ ret = << >> /\ back = << >>

Init == pc = "app" /\ InitSession /\ NoCall

SetPrecision ==
    /\ pc = "app"
    /\ \E p \in PrecisionInputs : precision' = p
    /\ UNCHANGED <<mmbtu_per_barrel, from_unit, to_unit, values_str, targets,
                   apply_all, pc, call, ret, back>>

SetMmbtuPerBarrel ==
    /\ pc = "app"
    /\ \E x \in MmbtuInputs : mmbtu_per_barrel' = x
    /\ UNCHANGED <<precision, from_unit, to_unit, values_str, targets, apply_all,
                   pc, call, ret, back>>

\* the multiselect's options depend on from_unit: with other options it is
\* another widget, which starts empty
SelectFromUnit ==
    /\ pc = "app"
    /\ \E u \in {UNITS_ORDER[i] : i \in 1..Len(UNITS_ORDER)} :
          /\ from_unit' = u
          /\ targets' = IF u = from_unit THEN targets ELSE << >>
    /\ UNCHANGED <<precision, mmbtu_per_barrel, to_unit, values_str, apply_all,
                   pc, call, ret, back>>

SelectToUnit ==
    /\ pc = "app"
    /\ \E u \in {UNITS_ORDER[i] : i \in 1..Len(UNITS_ORDER)} : to_unit' = u
    /\ UNCHANGED <<precision, mmbtu_per_barrel, from_unit, values_str, targets,
                   apply_all, pc, call, ret, back>>

EnterValues ==
    /\ pc = "app"
    /\ \E s \in TextInputs : values_str' = s
    /\ UNCHANGED <<precision, mmbtu_per_barrel, from_unit, to_unit, targets,
                   apply_all, pc, call, ret, back>>

SelectTargets ==
    /\ pc = "app"
    /\ \E q \in TargetInputs :
          /\ SubsetOf(q, multiselect_options)
          /\ targets' = q
    /\ UNCHANGED <<precision, mmbtu_per_barrel, from_unit, to_unit, values_str,
                   apply_all, pc, call, ret, back>>

SetApplyAll ==
    /\ pc = "app"
    /\ \E b \in BOOLEAN : apply_all' = b
    /\ UNCHANGED <<precision, mmbtu_per_barrel, from_unit, to_unit, values_str,
                   targets, pc, call, ret, back>>

Next ==
    \/ SetPrecision
    \/ SetMmbtuPerBarrel
    \/ SelectFromUnit
    \/ SelectToUnit
    \/ EnterValues
    \/ SelectTargets
    \/ SetApplyAll

Spec == Init /\ [][Next]_vars

(***************************************************************************)
(* Direct calls of the functions, on arguments the session's widgets would *)
(* not all supply: any float float() can give, unit names outside the      *)
(* table, a zero or negative ratio.                                        *)
(***************************************************************************)
V_1000 == FFin(0, <<125>>, 3)                             \* float("1000")
V_2_5 == FFin(0, <<5>>, -1)                               \* float("2.5")
V_7 == FFin(0, <<7>>, 0)                                  \* float("7")
V_neg_2_5 == FFin(1, <<5>>, -1)                           \* float("-2.5")
V_1e305 == FFin(0, <<27869, 28290, 29858, 72>>, 962)      \* float("1e305")
V_1e_310 == FFin(0, <<26155, 5857, 18850>>, -1074)        \* float("1e-310")
V_5e_324 == FFin(0, <<1>>, -1074)                         \* float("5e-324")
V_neg_1 == FFin(1, <<1>>, 0)                              \* float("-1")

ConvertValueInputs ==
    { F_1_0, V_1000, V_2_5, V_7, V_neg_2_5, V_1e305, V_1e_310, V_5e_324,
      FZero(0), FZero(1), FInf(0), FNaN }
ConvertUnitInputs == {UNITS_ORDER[i] : i \in 1..Len(UNITS_ORDER)} \cup {"XYZ"}
ConvertMmbtuInputs == MmbtuInputs \cup {FZero(0), V_neg_1}

InitConvert ==
    /\ pc = "ready"
    /\ InitSession
    /\ call \in { [fn |-> "convert", value |-> v, from_unit |-> f, to_unit |-> t,
                   mmbtu_per_barrel |-> m] :
                  v \in ConvertValueInputs, f \in ConvertUnitInputs,
                  t \in ConvertUnitInputs, m \in ConvertMmbtuInputs }
    /\ ret = << >>
    /\ back = << >>

\* convert(value, from_unit, to_unit, mmbtu_per_barrel)
CallConvert ==
    /\ pc = "ready"
    /\ call.fn = "convert"
    /\ ret' = convert(call.value, call.from_unit, call.to_unit, call.mmbtu_per_barrel)
    /\ pc' = "returned"
    /\ UNCHANGED <<session, call, back>>

\* convert(<the result>, to_unit, from_unit, mmbtu_per_barrel)
CallConvertBack ==
    /\ pc = "returned"
    /\ call.fn = "convert"
    /\ ret.exc = "none"
    /\ back' = convert(ret.val[1], call.to_unit, call.from_unit, call.mmbtu_per_barrel)
    /\ pc' = "back"
    /\ UNCHANGED <<session, call, ret>>

NextConvert == CallConvert \/ CallConvertBack

SpecConvert == InitConvert /\ [][NextConvert]_vars

\* the session and the direct calls of convert side by side
InitAppConvert == Init \/ InitConvert
NextAppConvert == Next \/ NextConvert
SpecAppConvert == InitAppConvert /\ [][NextAppConvert]_vars

MaxTextLen == 4
Alphabet == {"1", ".", ",", " ", "a", "e", "-"}
SampleTexts ==
    { <<"1", ",", " ", "2", ".", "5", ",", " ", "a", "b", "c", " ", "1", "0", "0">>,
      <<"x", "x", " ", "y", "y">>,
      <<"1", ",", "2", ".", "5", ",", "1", "0", "0">>,
      <<" ", "5", ".", "8", "\t", "n", "a", "n", " ", "1", "_", "0", " ">>,
      <<"1", "e", "3", "0", "5", " ", "1", "e", "-", "3", "1", "0", " ", "5", "e", "-", "3", "2", "4">>,
      <<"2", " ", "7", " ", "-", "2", ".", "5", ",", "-", "1", ",", "1", "0", "0", "0">> }
ParseTextInputs ==
    UNION {[1..n -> Alphabet] : n \in 0..MaxTextLen} \cup SampleTexts

InitParse ==
    /\ pc = "ready"
    /\ InitSession
    /\ call \in {[fn |-> "parse_numbers", s |-> t] : t \in ParseTextInputs}
    /\ ret = << >>
    /\ back = << >>

\* parse_numbers(s)
CallParseNumbers ==
    /\ pc = "ready"
    /\ call.fn = "parse_numbers"
    /\ ret' = parse_numbers(call.s)
    /\ pc' = "returned"
    /\ UNCHANGED <<session, call, back>>

SpecParse == InitParse /\ [][CallParseNumbers]_vars

BatchValueInputs == {<< >>, <<F_1_0>>, <<F_1_0, V_2_5>>}
BatchTargetInputs ==
    { << >>, <<"TBtu">>, <<"bbl", "GWh">>, <<"XYZ">>, <<"bbl", "XYZ">>,
      <<"XYZ", "bbl">>, <<"bbl", "XYZ", "GWh">> }

InitBatch ==
    /\ pc = "ready"
    /\ InitSession
    /\ call \in { [fn |-> "additional_conversions", values |-> vs, from_unit |-> f,
                   extra_targets |-> tg, mmbtu_per_barrel |-> m] :
                  vs \in BatchValueInputs, f \in ConvertUnitInputs,
                  tg \in BatchTargetInputs, m \in MmbtuInputs }
    /\ ret = << >>
    /\ back = << >>

\* the loop of "Additional Conversions" on the given values and targets
CallAdditionalConversions ==
    /\ pc = "ready"
    /\ call.fn = "additional_conversions"
    /\ ret' = additional_conversions(call.values, call.from_unit, call.extra_targets,
                                     call.mmbtu_per_barrel)
    /\ pc' = "returned"
    /\ UNCHANGED <<session, call, back>>

SpecBatch == InitBatch /\ [][CallAdditionalConversions]_vars

(***************************************************************************)
(* What the specification says, in its own terms.                          *)
(***************************************************************************)
\* the float a decimal numeral stands for
Dec(numeral) == PyFloat(numeral).val[1]

Registered == {"TBtu", "MMBtu", "Mth", "GWh", "MWh", "bbl"}

\* factorToBase of the six-unit registry
factorToBase(u, mmbtuPerBarrel) ==
    CASE u = "TBtu" -> Dec(<<"1", "0", "0", "0", "0", "0", "0">>)
      [] u = "MMBtu" -> Dec(<<"1">>)
      [] u = "Mth" -> Dec(<<"1", "0", "0", "0", "0", "0">>)
      [] u = "GWh" -> Dec(<<"3", "4", "1", "2", ".", "1", "4", "1", "6", "3", "3">>)
      [] u = "MWh" -> Dec(<<"3", ".", "4", "1", "2", "1", "4", "1", "6", "3", "3">>)
      [] u = "bbl" -> mmbtuPerBarrel

\* the magnitude of a finite float x as a natural, in units of 2^e0
Scaled(x, e0) == BShl(x.m, x.e - e0)
\* the position of x's leading bit
TopBit(x) == BBitLen(x.m) + x.e

\* |x - y| <= 1e-9 * |y|, for floats that are not NaN
WithinTolerance(x, y) ==
    \/ x.k = "zero" /\ y.k = "zero"
    \/ x.k = "inf" /\ y.k = "inf" /\ x.s = y.s
    \/ /\ x.k = "fin" /\ y.k = "fin" /\ x.s = y.s
       /\ TopBit(x) - TopBit(y) \in {-1, 0, 1}
       /\ LET e0 == Min(x.e, y.e)
              a == Scaled(x, e0)
              b == Scaled(y, e0)
              d == IF BCmp(a, b) >= 0 THEN BSub(a, b) ELSE BSub(b, a)
          IN  BCmp(BMul(d, BPow10(9)), b) <= 0

\* x > 0
Positive(x) == x.k \in {"fin", "inf"} /\ x.s = 0
\* a normal number: 2^-1022 <= |x| < 2^1024
Normal(x) == x.k = "fin" /\ TopBit(x) > -1022

ConvertReturned == pc \in {"returned", "back"} /\ call.fn = "convert"
\* a configuration the settings allow: 4.0 <= m <= 8.0
InDomain(m) == m.k = "fin" /\ m.s = 0 /\ (TopBit(m) = 3 \/ m = Dec(<<"8", ".", "0">>))

\* C1: for registered units a and b (and a non-zero factor of b), convert(v, a,
\* b, cfg) is (v * factorToBase[a]) / factorToBase[b]; with mmbtuPerBarrel = 5.8,
\* convert(1, bbl, MMBtu) = 5.8, convert(1000, MWh, GWh) = 1.0 and
\* convert(1, TBtu, MMBtu) = 1,000,000.
C1_ConvertThroughBase ==
    (/\ ConvertReturned
     /\ call.from_unit \in Registered
     /\ call.to_unit \in Registered
     /\ factorToBase(call.to_unit, call.mmbtu_per_barrel).k # "zero")
    => /\ ret = Return(FDiv(FMul(call.value,
                                 factorToBase(call.from_unit, call.mmbtu_per_barrel)),
                            factorToBase(call.to_unit, call.mmbtu_per_barrel)))
       /\ (/\ call.mmbtu_per_barrel = Dec(<<"5", ".", "8">>)
           /\ call.value = Dec(<<"1">>)
           /\ call.from_unit = "bbl"
           /\ call.to_unit = "MMBtu") => ret = Return(Dec(<<"5", ".", "8">>))
       /\ (/\ call.mmbtu_per_barrel = Dec(<<"5", ".", "8">>)
           /\ call.value = Dec(<<"1", "0", "0", "0">>)
           /\ call.from_unit = "MWh"
           /\ call.to_unit = "GWh") => ret = Return(Dec(<<"1", ".", "0">>))
       /\ (/\ call.mmbtu_per_barrel = Dec(<<"5", ".", "8">>)
           /\ call.value = Dec(<<"1">>)
           /\ call.from_unit = "TBtu"
           /\ call.to_unit = "MMBtu") => ret = Return(Dec(<<"1", "0", "0", "0", "0", "0", "0">>))

C1_Witness ==
    /\ ConvertReturned
    /\ call.mmbtu_per_barrel = Dec(<<"5", ".", "8">>)
    /\ call.value = Dec(<<"1", "0", "0", "0">>)
    /\ call.from_unit = "MWh"
    /\ call.to_unit = "GWh"
    /\ ret = Return(Dec(<<"1", ".", "0">>))

\* C2: in every configuration the registry has exactly the keys TBtu, MMBtu,
\* Mth, GWh, MWh, bbl; MMBtu has factor 1.0, TBtu, Mth, GWh and MWh the fixed
\* factors 1,000,000 / 100,000 / 3,412.141633 / 3.412141633, and bbl the
\* configured mmbtuPerBarrel.
C2_Registry ==
    pc = "app" =>
       /\ DOMAIN umap = Registered
       /\ umap["MMBtu"].to_mmbtu = Dec(<<"1", ".", "0">>)
       /\ umap["TBtu"].to_mmbtu = Dec(<<"1", "0", "0", "0", "0", "0", "0">>)
       /\ umap["Mth"].to_mmbtu = Dec(<<"1", "0", "0", "0", "0", "0">>)
       /\ umap["GWh"].to_mmbtu = Dec(<<"3", "4", "1", "2", ".", "1", "4", "1", "6", "3", "3">>)
       /\ umap["MWh"].to_mmbtu = Dec(<<"3", ".", "4", "1", "2", "1", "4", "1", "6", "3", "3">>)
       /\ umap["bbl"].to_mmbtu = mmbtu_per_barrel

C2_Witness ==
    /\ pc = "app"
    /\ mmbtu_per_barrel = Dec(<<"8", ".", "0">>)
    /\ umap["bbl"].to_mmbtu = Dec(<<"8", ".", "0">>)
    /\ umap["GWh"].to_mmbtu = Dec(<<"3", "4", "1", "2", ".", "1", "4", "1", "6", "3", "3">>)

\* C3: convert fails with the unknown-unit error (Python's KeyError) whenever
\* fromUnit or toUnit is not a key of the registry, whatever the value and the
\* configuration, and returns no number.
C3_UnknownUnit ==
    (/\ ConvertReturned
     /\ (call.from_unit \notin Registered \/ call.to_unit \notin Registered))
    => ret = Raise("KeyError")

C3_Witness ==
    /\ ConvertReturned
    /\ call.from_unit = "XYZ"
    /\ call.to_unit = "MMBtu"
    /\ call.value = Dec(<<"1">>)
    /\ ret.exc = "KeyError"
    /\ ret.val = << >>

\* C4: a step that changes mmbtuPerBarrel makes the conversion of 1 from bbl
\* to MMBtu shown next exactly the new value, whatever was configured before,
\* and leaves every conversion between units other than bbl as it was.
C4_ConfigSensitivity ==
    [][(pc = "app" /\ mmbtu_per_barrel' # mmbtu_per_barrel)
       => LET new == mmbtu_per_barrel'
              primary == Primary(values, from_unit, to_unit, new)
              extra == Additional(values, from_unit, to_unit, extra_targets, new)
          IN  /\ <<from_unit, to_unit, values_str, targets, apply_all>>'
                 = <<from_unit, to_unit, values_str, targets, apply_all>>
              /\ (from_unit = "bbl" /\ to_unit = "MMBtu")
                 => \A i \in 1..Len(primary.rows) :
                       primary.rows[i].Input = Dec(<<"1">>)
                       => primary.rows[i].Result = new
              /\ (from_unit = "bbl")
                 => \A i \in 1..Len(extra.rows) :
                       (extra.rows[i].Input = Dec(<<"1">>) /\ extra.rows[i].To = "MMBtu")
                       => extra.rows[i].Result = new
              /\ (from_unit # "bbl")
                 => /\ to_unit # "bbl" => primary = results_primary
                    /\ SelectSeq(extra.rows, LAMBDA r : r.To # "bbl")
                       = SelectSeq(rows.rows, LAMBDA r : r.To # "bbl")
      ]_vars

C4_Witness ==
    /\ pc = "app"
    /\ mmbtu_per_barrel = Dec(<<"8", ".", "0">>)
    /\ from_unit = "bbl"
    /\ to_unit = "MMBtu"
    /\ values = <<Dec(<<"1">>)>>
    /\ results_primary = Rows(<<Row(Dec(<<"1">>), "bbl", "MMBtu", Dec(<<"8", ".", "0">>))>>)

\* C5 as stated: for every registered unit u, every value v and every
\* configuration, convert(v, u, u, cfg) equals v (within the tolerance, and
\* exactly for u = MMBtu).
C5_Identity_AsStated ==
    (/\ ConvertReturned
     /\ call.from_unit \in Registered
     /\ call.to_unit = call.from_unit
     /\ InDomain(call.mmbtu_per_barrel))
    => /\ ret.exc = "none"
       /\ call.value.k # "nan" /\ ret.val[1].k # "nan"
       /\ WithinTolerance(ret.val[1], call.value)
       /\ call.from_unit = "MMBtu" => FEq(ret.val[1], call.value)

\* C5: for every registered unit u and every configuration the settings allow
\* (4.0 <= mmbtuPerBarrel <= 8.0), convert(v, u, u, cfg) equals v within the
\* tolerance (exactly for u = MMBtu) for every v that
\* is not NaN and whose product with u's factor stays finite; it is NaN for
\* NaN, and infinite when the product overflows.
C5_Identity ==
    (/\ ConvertReturned
     /\ call.from_unit \in Registered
     /\ call.to_unit = call.from_unit
     /\ InDomain(call.mmbtu_per_barrel))
    => LET v == call.value
           p == FMul(v, factorToBase(call.from_unit, call.mmbtu_per_barrel))
       IN  /\ ret.exc = "none"
           /\ v.k = "nan" => ret.val[1].k = "nan"
           /\ (v.k = "fin" /\ p.k = "inf") => ret.val[1] = FInf(v.s)
           /\ (v.k # "nan" /\ (v.k = "inf" \/ p.k # "inf"))
              => /\ WithinTolerance(ret.val[1], v)
                 /\ call.from_unit = "MMBtu" => FEq(ret.val[1], v)

C5_Witness ==
    /\ ConvertReturned
    /\ call.from_unit = "bbl"
    /\ call.to_unit = "bbl"
    /\ call.mmbtu_per_barrel = Dec(<<"5", ".", "8">>)
    /\ call.value = Dec(<<"7">>)
    /\ ret.exc = "none"
    /\ ~FEq(ret.val[1], call.value)
    /\ WithinTolerance(ret.val[1], call.value)

\* C6 as stated: for every pair of registered units a, b, every value v and
\* every configuration, convert(convert(v, a, b, cfg), b, a, cfg) is v within
\* the tolerance.
C6_RoundTrip_AsStated ==
    (/\ pc = "back"
     /\ call.fn = "convert"
     /\ call.from_unit \in Registered
     /\ call.to_unit \in Registered
     /\ InDomain(call.mmbtu_per_barrel))
    => /\ back.exc = "none"
       /\ call.value.k # "nan" /\ back.val[1].k # "nan"
       /\ WithinTolerance(back.val[1], call.value)

\* C6: for every pair of registered units a, b and every configuration the
\* settings allow (4.0 <= mmbtuPerBarrel <= 8.0), the round trip gives v back within the tolerance whenever v is zero or
\* infinite, or v is finite, the intermediate result is a normal number and
\* neither product overflows.
C6_RoundTrip ==
    (/\ pc = "back"
     /\ call.fn = "convert"
     /\ call.from_unit \in Registered
     /\ call.to_unit \in Registered
     /\ InDomain(call.mmbtu_per_barrel))
    => LET v == call.value
           m == call.mmbtu_per_barrel
           p1 == FMul(v, factorToBase(call.from_unit, m))
           r1 == ret.val[1]
           p2 == FMul(r1, factorToBase(call.to_unit, m))
       IN  /\ back.exc = "none"
           /\ (\/ v.k \in {"zero", "inf"}
               \/ v.k = "fin" /\ p1.k = "fin" /\ Normal(r1) /\ p2.k = "fin")
              => WithinTolerance(back.val[1], v)

C6_Witness ==
    /\ pc = "back"
    /\ call.fn = "convert"
    /\ call.from_unit = "bbl"
    /\ call.to_unit = "MWh"
    /\ call.mmbtu_per_barrel = Dec(<<"5", ".", "8">>)
    /\ call.value = Dec(<<"2", ".", "5">>)
    /\ Normal(ret.val[1])
    /\ back.exc = "none"
    /\ WithinTolerance(back.val[1], call.value)

\* parseNumbers in the specification's terms: the tokens of a text are its
\* maximal runs of characters that are neither commas nor whitespace
Separator(c) == c = "," \/ c \in Whitespace
TokenStarts(s) ==
    {i \in 1..Len(s) : ~Separator(s[i]) /\ (i = 1 \/ Separator(s[i - 1]))}
TokenEnd(s, i) ==
    CHOOSE j \in i..Len(s) :
        /\ \A k \in i..j : ~Separator(s[k])
        /\ (j = Len(s) \/ Separator(s[j + 1]))
Token(s, i) == SubSeq(s, i, TokenEnd(s, i))
NumericStarts(s) == {i \in TokenStarts(s) : PyFloat(Token(s, i)).exc = "none"}
\* the k-th element of a finite set of integers, in increasing order
Nth(S, k) == CHOOSE x \in S : Cardinality({y \in S : y < x}) = k - 1

ParseReturned == pc = "returned" /\ call.fn = "parse_numbers"

\* C7: for every text, parse_numbers returns exactly the values of the tokens
\* (split at commas and whitespace) that parse as numbers, in the order of the
\* text and with duplicates kept; the other tokens are dropped, so the empty
\* text and a text without a numeric token give the empty sequence.
C7_ParseNumbers ==
    ParseReturned =>
       LET s == call.s
           num == NumericStarts(s)
       IN  /\ Len(ret) = Cardinality(num)
           /\ \A k \in 1..Len(ret) : ret[k] = PyFloat(Token(s, Nth(num, k))).val[1]
           /\ s = << >> => ret = << >>
           /\ s = <<"x", "x", " ", "y", "y">> => ret = << >>
           /\ s = <<"1", ",", " ", "2", ".", "5", ",", " ", "a", "b", "c", " ", "1", "0", "0">> => ret = <<Dec(<<"1", ".", "0">>), Dec(<<"2", ".", "5">>), Dec(<<"1", "0", "0", ".", "0">>)>>

C7_Witness ==
    /\ ParseReturned
    /\ call.s = <<"1", ",", " ", "2", ".", "5", ",", " ", "a", "b", "c", " ", "1", "0", "0">>
    /\ ret = <<Dec(<<"1", ".", "0">>), Dec(<<"2", ".", "5">>), Dec(<<"1", "0", "0", ".", "0">>)>>

\* C8: the additional conversions of a session (whose targets are always
\* registered units) give exactly Len(values) * Len(targets) rows, value by
\* value and, for each value, target by target: row (i-1)*Len(targets)+j is
\* values[i], from_unit, targets[j] and convert(values[i], from_unit,
\* targets[j]); no values give no rows and no error.
C8_BatchRows ==
    pc = "app" =>
       LET vs == values
           tg == extra_targets
           out == rows
           n == Len(vs)
           k == Len(tg)
       IN  /\ out.exc = "none"
           /\ Len(out.rows) = n * k
           /\ \A i \in 1..n : \A j \in 1..k :
                 LET row == out.rows[(i - 1) * k + j]
                 IN  /\ row.Input = vs[i]
                     /\ row.From = from_unit
                     /\ row.To = tg[j]
                     /\ Return(row.Result) = convert(vs[i], from_unit, tg[j], mmbtu_per_barrel)
           /\ vs = << >> => (out = Rows(<< >>) /\ results_primary = Rows(<< >>))

C8_Witness ==
    /\ pc = "app"
    /\ from_unit = "MMBtu"
    /\ extra_targets = <<"bbl", "GWh">>
    /\ values = <<Dec(<<"1">>), Dec(<<"2">>)>>
    /\ LET out == rows.rows
       IN  /\ Len(out) = 4
           /\ <<out[1].To, out[2].To, out[3].To, out[4].To>> = <<"bbl", "GWh", "bbl", "GWh">>
           /\ <<out[1].Input, out[2].Input, out[3].Input, out[4].Input>>
              = <<Dec(<<"1">>), Dec(<<"1">>), Dec(<<"2">>), Dec(<<"2">>)>>

BatchReturned == pc = "returned" /\ call.fn = "additional_conversions"

\* C10: when there is a pair to convert and the source unit or one of the
\* targets is not in the registry, the loop of additional conversions ends
\* with the unknown-unit error (Python's KeyError) and leaves no row, not
\* even those of the pairs converted before the offending one.
C10_BatchAborts ==
    (/\ BatchReturned
     /\ call.values # << >>
     /\ call.extra_targets # << >>
     /\ \/ call.from_unit \notin Registered
        \/ \E j \in 1..Len(call.extra_targets) : call.extra_targets[j] \notin Registered)
    => ret = Aborted("KeyError")

C10_Witness ==
    /\ BatchReturned
    /\ call.values = <<Dec(<<"1">>), Dec(<<"2", ".", "5">>)>>
    /\ call.from_unit = "MMBtu"
    /\ call.extra_targets = <<"bbl", "XYZ", "GWh">>
    /\ ret.exc = "KeyError"
    /\ ret.rows = << >>

====
